---- MODULE Spec2Model ----
(***************************************************************************)
(* Model of foldch.py: the delta-delta-Ct fold-change computation.         *)
(*                                                                         *)
(* Strings that the program inspects character by character (sample names  *)
(* and rule conditions) are sequences of one-character strings; target     *)
(* names are only ever compared for equality and are plain strings.        *)
(* Numbers are exact rationals <<n, d>> in lowest terms with d > 0; the    *)
(* pair <<0, 0>> is NaN.  Values that involve a square root are kept in    *)
(* the closed form  mid + sgn * sqrt(var)  (see the section on numbers).   *)
(***************************************************************************)
EXTENDS Integers, Sequences, FiniteSets, TLC

\* ------------------------------------------------------------------ bounds
MaxRows == 4
MaxRules == 2
MaxFiles == 2

\* ----------------------------------------------------------------- numbers
Abs(x) == IF x < 0 THEN -x ELSE x

RECURSIVE GCD(_, _)
GCD(a, b) == IF b = 0 THEN a ELSE GCD(b, a % b)

NaN == <<0, 0>>
IsNaN(q) == q[2] = 0

Rat(n, d) ==
    IF d = 0 THEN NaN
    ELSE LET g == GCD(Abs(n), Abs(d))
             s == IF d < 0 THEN -1 ELSE 1
         IN  <<(s * n) \div g, (s * d) \div g>>

Whole(n) == <<n, 1>>
RatAdd(p, q) == IF IsNaN(p) \/ IsNaN(q) THEN NaN
                ELSE Rat(p[1] * q[2] + q[1] * p[2], p[2] * q[2])
RatNeg(p) == IF IsNaN(p) THEN NaN ELSE <<-p[1], p[2]>>
RatSub(p, q) == RatAdd(p, RatNeg(q))
RatMul(p, q) == IF IsNaN(p) \/ IsNaN(q) THEN NaN
                ELSE Rat(p[1] * q[1], p[2] * q[2])

RECURSIVE SumSeq(_)
SumSeq(qs) == IF qs = <<>> THEN Whole(0) ELSE RatAdd(Head(qs), SumSeq(Tail(qs)))

\* pandas Series.mean(): the sum over the count.
Mean(qs) == RatMul(SumSeq(qs), Rat(1, Len(qs)))

\* A real of the form mid + sgn * sqrt(var); nan marks NaN.
Sym(nan, mid, sgn, var) == [nan |-> nan, mid |-> mid, sgn |-> sgn, var |-> var]
SymNaN == Sym(TRUE, Whole(0), 0, Whole(0))
SymOfRat(q) == IF IsNaN(q) THEN SymNaN ELSE Sym(FALSE, q, 0, Whole(0))

\* The population standard deviation (ddof = 0), which is 0 for one value.
StdPopulation(qs) ==
    LET m == Mean(qs)
        sq == [i \in 1..Len(qs) |-> RatMul(RatSub(qs[i], m), RatSub(qs[i], m))]
    IN  Sym(FALSE, Whole(0), 1, RatMul(SumSeq(sq), Rat(1, Len(qs))))

\* pandas Series.std(): sample standard deviation, ddof = 1; NaN when the
\* group has fewer than two values.
Std(qs) ==
    IF Len(qs) < 2 THEN SymNaN
    ELSE LET m == Mean(qs)
             sq == [i \in 1..Len(qs) |-> RatMul(RatSub(qs[i], m), RatSub(qs[i], m))]
         IN  Sym(FALSE, Whole(0), 1, RatMul(SumSeq(sq), Rat(1, Len(qs) - 1)))

\* np.sqrt(a ** 2 + b ** 2) for two standard deviations a and b.
SqrtSumSq(a, b) ==
    IF a.nan \/ b.nan THEN SymNaN
    ELSE Sym(FALSE, Whole(0), 1, RatAdd(a.var, b.var))

\* q + sgn * s for a rational q and a standard deviation s.
RatPlusStd(q, sgn, s) ==
    IF IsNaN(q) \/ s.nan THEN SymNaN
    ELSE Sym(FALSE, q, IF s.var = Whole(0) THEN 0 ELSE sgn, s.var)

RECURSIVE Pow2Whole(_)
Pow2Whole(k) == IF k = 0 THEN Whole(1)
              ELSE IF k > 0 THEN RatMul(Whole(2), Pow2Whole(k - 1))
              ELSE RatMul(Rat(1, 2), Pow2Whole(k + 1))

\* 2 ** e.  The value is computed when the exponent is an integer; otherwise
\* the power is kept by its exponent (val is NaN then, nan stays FALSE).
Pow2(e) ==
    IF e.nan THEN [nan |-> TRUE, exp |-> SymNaN, val |-> NaN]
    ELSE [nan |-> FALSE, exp |-> e,
          val |-> IF e.sgn = 0 /\ e.mid[2] = 1 THEN Pow2Whole(e.mid[1]) ELSE NaN]

\* np.log2 of a power of two: NaN stays NaN, 2 ** e gives e back.
Log2(p) == IF p.nan THEN SymNaN ELSE p.exp

\* ----------------------------------------------------------------- strings
ALL == <<"a", "l", "l">>
StartsWithSlash(c) == Len(c) >= 1 /\ c[1] = "/"
EndsWithSlash(c) == Len(c) >= 1 /\ c[Len(c)] = "/"
\* condition[1:-1]
Strip(c) == SubSeq(c, 2, Len(c) - 1)

\* re.match(pattern, value) for patterns made of literal characters, "." and
\* a final "$": the pattern is matched at the start of value.
RECURSIVE ReMatch(_, _)
ReMatch(p, v) ==
    IF p = <<>> THEN TRUE
    ELSE IF p = <<"$">> THEN v = <<>>
    ELSE IF v = <<>> THEN FALSE
    ELSE (p[1] = "." \/ p[1] = v[1]) /\ ReMatch(Tail(p), Tail(v))

\* ------------------------------------------------------- reference lookup
\* The value None of get_reference_condition, as a (found, ref) pair.
None == [found |-> FALSE, ref |-> <<>>]
Some(r) == [found |-> TRUE, ref |-> r]

\* One pass of the loop body of get_reference_condition.
ConditionMatches(condition, value) ==
    IF condition = ALL THEN TRUE
    ELSE IF StartsWithSlash(condition) /\ EndsWithSlash(condition)
         THEN ReMatch(Strip(condition), value)
    ELSE condition = value

\* The last matching rule instead of the first.
RECURSIVE get_reference_condition_last(_, _)
get_reference_condition_last(reference_list, value) ==
    IF reference_list = <<>> THEN None
    ELSE LET later == get_reference_condition_last(Tail(reference_list), value)
         IN  IF later.found THEN later
             ELSE IF ConditionMatches(Head(reference_list)[1], value)
                  THEN Some(Head(reference_list)[2])
             ELSE None

RECURSIVE get_reference_condition(_, _)
get_reference_condition(reference_list, value) ==
    IF reference_list = <<>> THEN None
    ELSE IF ConditionMatches(Head(reference_list)[1], value)
         THEN Some(Head(reference_list)[2])
    ELSE get_reference_condition(Tail(reference_list), value)

\* ------------------------------------------------------------- data frames
Range(f) == {f[x] : x \in DOMAIN f}

Row(s, t, c) == [Sample |-> s, Target |-> t, Cq |-> Whole(c)]

\* pd.concat(frames, axis=0)
RECURSIVE Concat(_)
Concat(frames) == IF frames = <<>> THEN <<>> ELSE Head(frames) \o Concat(Tail(frames))

\* input_df[['Sample', 'Target']].drop_duplicates(): the first occurrence of
\* each (Sample, Target) pair, in row order.
RECURSIVE DropDuplicates(_, _)
DropDuplicates(df, seen) ==
    IF df = <<>> THEN <<>>
    ELSE LET k == [Sample |-> Head(df).Sample, Target |-> Head(df).Target]
         IN  IF k \in seen THEN DropDuplicates(Tail(df), seen)
             ELSE <<k>> \o DropDuplicates(Tail(df), seen \cup {k})

\* df.groupby(['Sample', 'Target']).get_group((sample, target)): the rows of
\* the group; the lookup raises KeyError when the group does not exist.
get_group(df, sample, target) ==
    SelectSeq(df, LAMBDA r : r.Sample = sample /\ r.Target = target)

GroupExists(df, sample, target) ==
    \E i \in 1..Len(df) : df[i].Sample = sample /\ df[i].Target = target

Column(rows, col) == [i \in 1..Len(rows) |-> rows[i][col]]

\* reference_samples[sample] = reference_sample
DictSet(d, k, v) == [x \in DOMAIN d \cup {k} |-> IF x = k THEN v ELSE d[x]]

\* -------------------------------------------------------------------- state
VARIABLES
    args,               \* Arguments: input_paths (the frame read from each
                        \* path), reference_samples, reference_targets, concat
    pc,                 \* position in main / foldch
    file_idx,           \* index of the input being processed ('output')
    input_df,           \* foldch's input_df
    output_df,          \* foldch's output_df
    row_idx,            \* position of the iterrows() loop
    reference_samples,  \* foldch's dict sample -> reference sample
    reference_targets,  \* foldch's dict sample -> reference target
    defaults,           \* default_sample, default_target
    notices,            \* what foldch printed
    frames,             \* frames returned by foldch so far ('output')
    main_df,            \* main's output_df
    written             \* the output file

vars == <<args, pc, file_idx, input_df, output_df, row_idx, reference_samples,
          reference_targets, defaults, notices, frames, main_df, written>>

NoFile == [exists |-> FALSE, rows |-> <<>>]
NoDefaults == [sample |-> <<>>, target |-> ""]

\* ------------------------------------------------------------------ inputs
A == <<"A">>
B == <<"B">>
C == <<"C">>
D == <<"D">>
AB == <<"A", "B">>
RowKinds ==
    {Row(s, "X", c) : s \in {A, B}, c \in {20, 21}} \cup {Row(s, "R", 25) : s \in {A, B}}

SeqsUpTo(S, n) == UNION {[1..k -> S] : k \in 0..n}

\* Rule lists written out: the usual single control, no rules at all, two
\* samples that are each other's control, and a control target per sample.
CuratedRules ==
    { [rs |-> <<<<ALL, A>>>>, rt |-> <<<<ALL, "R">>>>],
      [rs |-> <<>>, rt |-> <<>>],
      [rs |-> <<<<A, B>>, <<B, A>>>>, rt |-> <<<<ALL, "R">>>>],
      [rs |-> <<<<ALL, A>>>>, rt |-> <<<<A, "X">>, <<B, "R">>>>] }

Arguments(paths, rs, rt, concat) ==
    [input_paths |-> paths, reference_samples |-> rs, reference_targets |-> rt,
     concat |-> concat]

\* The scenario of the specification's section 8.
ScenarioTable ==
    << Row(A, "X", 20), Row(A, "X", 21), Row(A, "R", 25), Row(A, "R", 25),
       Row(B, "X", 22), Row(B, "X", 22), Row(B, "R", 25), Row(B, "R", 26) >>

\* A second experiment, on other samples.
SecondTable ==
    << Row(C, "R", 24), Row(C, "X", 21), Row(D, "X", 23), Row(D, "X", 24),
       Row(D, "R", 26), Row(D, "R", 26) >>

\* Sample names of which one is a prefix of another.
PrefixTable ==
    << Row(B, "R", 26), Row(B, "X", 22), Row(AB, "X", 21), Row(AB, "R", 25),
       Row(A, "X", 20), Row(A, "R", 25) >>

\* Sample A was not measured on R.
BrokenTable == << Row(B, "X", 21), Row(B, "R", 25), Row(A, "X", 20) >>

ExperimentTables == {ScenarioTable, SecondTable, PrefixTable, BrokenTable, <<>>}

SampleRuleKinds ==
    { <<ALL, B>>, <<<<"/", "A", "/">>, A>>, <<A, A>>, <<A, B>>, <<<<"/">>, B>> }
TargetRuleKinds == {<<ALL, "R">>, <<A, "X">>, <<<<"/", "A", "$", "/">>, "X">>}

InitialState(a) ==
    /\ args = a
    /\ pc = "main"
    /\ file_idx = 0
    /\ input_df = <<>>
    /\ output_df = <<>>
    /\ row_idx = 0
    /\ reference_samples = <<>>
    /\ reference_targets = <<>>
    /\ defaults = NoDefaults
    /\ notices = <<>>
    /\ frames = <<>>
    /\ main_df = <<>>
    /\ written = NoFile

\* One file, every table of at most MaxRows rows.
InitOneFile ==
    \E k \in 0..MaxRows : \E tbl \in [1..k -> RowKinds] : \E r \in CuratedRules :
        InitialState(Arguments(<<tbl>>, r.rs, r.rt, "input"))

\* Every pair of rule lists of at most MaxRules rules, on two fixed tables.
InitRules ==
    \E tbl \in {ScenarioTable, PrefixTable} :
    \E j \in 0..MaxRules : \E rs \in [1..j -> SampleRuleKinds] :
    \E k \in 0..MaxRules : \E rt \in [1..k -> TargetRuleKinds] :
        InitialState(Arguments(<<tbl>>, rs, rt, "input"))

\* Up to MaxFiles whole experiments, under every value of --concat.
InitFiles ==
    \E k \in 1..MaxFiles : \E fs \in [1..k -> ExperimentTables] :
    \E r \in CuratedRules : \E c \in {"input", "output", "other"} :
        InitialState(Arguments(fs, r.rs, r.rt, c))

Init == InitOneFile \/ InitRules \/ InitFiles

\* --------------------------------------------------------------------- main
\* 'output' handled like 'input': every call of foldch on the pooled rows.
MainPooled ==
    /\ pc = "main"
    /\ IF args.concat \in {"input", "output"}
       THEN /\ input_df' = Concat(args.input_paths)
            /\ file_idx' = IF args.concat = "input" THEN 0 ELSE 1
            /\ pc' = "foldch"
       ELSE /\ pc' = "error"
            /\ UNCHANGED <<input_df, file_idx>>
    /\ UNCHANGED <<args, output_df, row_idx, reference_samples, reference_targets,
                   defaults, notices, frames, main_df, written>>

\* main, lines 175-180: the strategy decides what foldch is first called on.
Main ==
    /\ pc = "main"
    /\ IF args.concat = "input"
       THEN /\ input_df' = Concat(args.input_paths)
            /\ file_idx' = 0
            /\ pc' = "foldch"
       ELSE IF args.concat = "output"
       THEN /\ input_df' = args.input_paths[1]
            /\ file_idx' = 1
            /\ pc' = "foldch"
       ELSE /\ pc' = "error"
            /\ UNCHANGED <<input_df, file_idx>>
    /\ UNCHANGED <<args, output_df, row_idx, reference_samples, reference_targets,
                   defaults, notices, frames, main_df, written>>

\* foldch, lines 114-116: the fallback reference is the first row of the
\* deduplicated table.
DefaultRowLast(dedup) == dedup[Len(dedup)]
DefaultRow(dedup) == dedup[1]

\* foldch, lines 109-116: the deduplicated table and the fallback reference;
\* iloc[0] raises IndexError on an empty table.
FoldchBegin ==
    /\ pc = "foldch"
    /\ LET dedup == DropDuplicates(input_df, {})
       IN  /\ output_df' = dedup
           /\ IF dedup = <<>>
              THEN /\ pc' = "error"
                   /\ UNCHANGED defaults
              ELSE /\ pc' = "resolve"
                   /\ defaults' = [sample |-> DefaultRow(dedup).Sample,
                                   target |-> DefaultRow(dedup).Target]
    /\ row_idx' = 1
    /\ reference_samples' = <<>>
    /\ reference_targets' = <<>>
    /\ UNCHANGED <<args, file_idx, input_df, notices, frames, main_df, written>>

\* foldch, lines 120-128: the references of one sample, with the fallback.
ResolveSample(a, dflt, sample) ==
    LET rs == get_reference_condition(a.reference_samples, sample)
        rt == get_reference_condition(a.reference_targets, sample)
    IN  [reference_sample |-> IF rs.found THEN rs.ref ELSE dflt.sample,
         reference_target |-> IF rt.found THEN rt.ref ELSE dflt.target,
         notices |->
            (IF rs.found THEN <<>>
             ELSE <<[kind |-> "sample", sample |-> sample, default |-> dflt.sample]>>)
            \o
            (IF rt.found THEN <<>>
             ELSE <<[kind |-> "target", sample |-> sample, default |-> dflt.target]>>)]

\* A sample that no rule matches as an error instead of the fallback.
ResolveRowStrict ==
    /\ pc = "resolve"
    /\ row_idx <= Len(output_df)
    /\ LET sample == output_df[row_idx].Sample
           res == ResolveSample(args, defaults, sample)
       IN  IF res.notices # <<>>
           THEN /\ pc' = "error"
                /\ UNCHANGED <<reference_samples, reference_targets, notices, row_idx>>
           ELSE /\ reference_samples' =
                     DictSet(reference_samples, sample, res.reference_sample)
                /\ reference_targets' =
                     DictSet(reference_targets, sample, res.reference_target)
                /\ UNCHANGED <<notices, pc>>
                /\ row_idx' = row_idx + 1
    /\ UNCHANGED <<args, file_idx, input_df, output_df, defaults, frames,
                   main_df, written>>

\* foldch, lines 118-131: one iteration of the loop over output_df's rows.
ResolveRow ==
    /\ pc = "resolve"
    /\ row_idx <= Len(output_df)
    /\ LET sample == output_df[row_idx].Sample
           res == ResolveSample(args, defaults, sample)
       IN  /\ reference_samples' = DictSet(reference_samples, sample, res.reference_sample)
           /\ reference_targets' = DictSet(reference_targets, sample, res.reference_target)
           /\ notices' = notices \o res.notices
    /\ row_idx' = row_idx + 1
    /\ UNCHANGED <<args, pc, file_idx, input_df, output_df, defaults, frames,
                   main_df, written>>

\* foldch, lines 138-139: the reference columns.
WithReferences(ref_s, ref_t, df) ==
    [i \in 1..Len(df) |->
        df[i] @@ [RefSample |-> ref_s[df[i].Sample],
                  RefTarget |-> ref_t[df[i].Sample]]]

\* foldch, lines 142-145: the statistics of a row's own group and of its
\* control group.
StatsRow(in_df, r) ==
    LET own == Column(get_group(in_df, r.Sample, r.Target), "Cq")
        ctrl == Column(get_group(in_df, r.Sample, r.RefTarget), "Cq")
    IN  r @@ [CtAvg |-> Mean(own), CtStd |-> Std(own),
              CtAvgCtrl |-> Mean(ctrl), CtStdCtrl |-> Std(ctrl)]

\* foldch, lines 144-145: get_group raises KeyError unless every sample was
\* measured on its reference target.
ControlGroupsAssumed(in_df, df) == TRUE
ControlGroupsExist(in_df, df) ==
    \A i \in 1..Len(df) : GroupExists(in_df, df[i].Sample, df[i].RefTarget)

\* foldch, lines 138-145; the exception leaves foldch and main.
GroupStats ==
    /\ pc = "resolve"
    /\ row_idx > Len(output_df)
    /\ LET df == WithReferences(reference_samples, reference_targets, output_df)
       IN  IF ControlGroupsExist(input_df, df)
           THEN /\ output_df' = [i \in 1..Len(df) |-> StatsRow(input_df, df[i])]
                /\ pc' = "delta"
           ELSE /\ output_df' = df
                /\ pc' = "error"
    /\ UNCHANGED <<args, file_idx, input_df, row_idx, reference_samples,
                   reference_targets, defaults, notices, frames, main_df, written>>

\* foldch, lines 148-149.
DeltaRow(r) ==
    r @@ [DeltaCt |-> RatSub(r.CtAvg, r.CtAvgCtrl),
          DeltaCtStd |-> SqrtSumSq(r.CtStd, r.CtStdCtrl)]

DeltaCt ==
    /\ pc = "delta"
    /\ output_df' = [i \in 1..Len(output_df) |-> DeltaRow(output_df[i])]
    /\ pc' = "ctrl_sample"
    /\ UNCHANGED <<args, file_idx, input_df, row_idx, reference_samples,
                   reference_targets, defaults, notices, frames, main_df, written>>

\* foldch, lines 151-152: the Delta Ct of the same target in the reference
\* sample, looked up in output_df itself.
DeltaDeltaRowOnRefTarget(df, r) ==
    LET ctrl == Mean(Column(get_group(df, r.RefSample, r.RefTarget), "DeltaCt"))
    IN  r @@ [DeltaCtAvgCtrlSample |-> ctrl,
              DeltaDeltaCt |-> RatSub(r.DeltaCt, ctrl)]
DeltaDeltaRow(df, r) ==
    LET ctrl == Mean(Column(get_group(df, r.RefSample, r.Target), "DeltaCt"))
    IN  r @@ [DeltaCtAvgCtrlSample |-> ctrl,
              DeltaDeltaCt |-> RatSub(r.DeltaCt, ctrl)]

\* foldch, line 151: get_group raises KeyError unless output_df has a row
\* for (Ref Sample, Target).
ReferenceRowsAssumed(df) == TRUE
ReferenceRowsExist(df) ==
    \A i \in 1..Len(df) : GroupExists(df, df[i].RefSample, df[i].Target)

DeltaDeltaCt ==
    /\ pc = "ctrl_sample"
    /\ IF ReferenceRowsExist(output_df)
       THEN /\ output_df' = [i \in 1..Len(output_df) |->
                                DeltaDeltaRow(output_df, output_df[i])]
            /\ pc' = "fold"
       ELSE /\ pc' = "error"
            /\ UNCHANGED output_df
    /\ UNCHANGED <<args, file_idx, input_df, row_idx, reference_samples,
                   reference_targets, defaults, notices, frames, main_df, written>>

\* foldch, lines 154-162 (the two text columns are not modelled).
FoldRow(r) ==
    LET fold == Pow2(SymOfRat(RatNeg(r.DeltaDeltaCt)))
        lower == Pow2(RatPlusStd(RatNeg(r.DeltaDeltaCt), -1, r.DeltaCtStd))
        upper == Pow2(RatPlusStd(RatNeg(r.DeltaDeltaCt), 1, r.DeltaCtStd))
    IN  r @@ [Fold |-> fold, FoldCI68Lower |-> lower, FoldCI68Upper |-> upper,
              LogFold |-> Log2(fold), LogFoldCI68Lower |-> Log2(lower),
              LogFoldCI68Upper |-> Log2(upper)]

FoldColumns ==
    /\ pc = "fold"
    /\ output_df' = [i \in 1..Len(output_df) |-> FoldRow(output_df[i])]
    /\ pc' = "drop"
    /\ UNCHANGED <<args, file_idx, input_df, row_idx, reference_samples,
                   reference_targets, defaults, notices, frames, main_df, written>>

\* foldch, lines 164-167: one filter per value of each dictionary, which
\* leaves the rows whose Sample is no value of reference_samples and whose
\* Target is no value of reference_targets.
DropOwnReferences(ref_s, ref_t, df) ==
    SelectSeq(df, LAMBDA r : r.Sample # ref_s[r.Sample] /\ r.Target # ref_t[r.Sample])
DropRows(ref_s, ref_t, df) ==
    SelectSeq(df, LAMBDA r : r.Sample \notin Range(ref_s) /\ r.Target \notin Range(ref_t))

\* foldch, lines 164-169, and what main does with the frame returned
\* (lines 176 and 178): under 'output' the next input is processed, and the
\* frames are concatenated after the last one.
DropReferences ==
    /\ pc = "drop"
    /\ LET ret == DropRows(reference_samples, reference_targets, output_df)
       IN  /\ output_df' = ret
           /\ IF args.concat = "input"
              THEN /\ main_df' = ret
                   /\ pc' = "write"
                   /\ UNCHANGED <<frames, file_idx, input_df>>
              ELSE IF file_idx < Len(args.input_paths)
              THEN /\ frames' = Append(frames, ret)
                   /\ file_idx' = file_idx + 1
                   /\ input_df' = args.input_paths[file_idx + 1]
                   /\ pc' = "foldch"
                   /\ UNCHANGED main_df
              ELSE /\ frames' = Append(frames, ret)
                   /\ main_df' = Concat(Append(frames, ret))
                   /\ pc' = "write"
                   /\ UNCHANGED <<file_idx, input_df>>
    /\ UNCHANGED <<args, row_idx, reference_samples, reference_targets, defaults,
                   notices, written>>

\* main, lines 182-192: the table is written to the output file.
WriteOutput ==
    /\ pc = "write"
    /\ written' = [exists |-> TRUE, rows |-> main_df]
    /\ pc' = "done"
    /\ UNCHANGED <<args, file_idx, input_df, output_df, row_idx, reference_samples,
                   reference_targets, defaults, notices, frames, main_df>>

Next ==
    \/ Main
    \/ FoldchBegin
    \/ ResolveRow
    \/ GroupStats
    \/ DeltaCt
    \/ DeltaDeltaCt
    \/ FoldColumns
    \/ DropReferences
    \/ WriteOutput

Spec == Init /\ [][Next]_vars

\* ------------------------------------------------- foldch as one function
\* foldch(args, input_df), lines 108-169: ok is FALSE when an exception
\* leaves the function.
RECURSIVE ResolveAll(_, _, _, _, _)
ResolveAll(a, dflt, df, ref_s, ref_t) ==
    IF df = <<>> THEN [ref_s |-> ref_s, ref_t |-> ref_t]
    ELSE LET res == ResolveSample(a, dflt, Head(df).Sample)
         IN  ResolveAll(a, dflt, Tail(df),
                        DictSet(ref_s, Head(df).Sample, res.reference_sample),
                        DictSet(ref_t, Head(df).Sample, res.reference_target))

Raised == [ok |-> FALSE, rows |-> <<>>]

foldch(a, in_df) ==
    LET dedup == DropDuplicates(in_df, {})
    IN  IF dedup = <<>> THEN Raised
        ELSE
        LET dflt == [sample |-> DefaultRow(dedup).Sample,
                     target |-> DefaultRow(dedup).Target]
            refs == ResolveAll(a, dflt, dedup, <<>>, <<>>)
            df1 == WithReferences(refs.ref_s, refs.ref_t, dedup)
        IN  IF ~ControlGroupsExist(in_df, df1) THEN Raised
            ELSE
            LET df2 == [i \in 1..Len(df1) |-> DeltaRow(StatsRow(in_df, df1[i]))]
            IN  IF ~ReferenceRowsExist(df2) THEN Raised
                ELSE [ok |-> TRUE,
                      rows |-> DropRows(refs.ref_s, refs.ref_t,
                                  [i \in 1..Len(df2) |->
                                      FoldRow(DeltaDeltaRow(df2, df2[i]))])]

\* ------------------------------------------------------- shared vocabulary
SamplesOf(df) == {df[i].Sample : i \in 1..Len(df)}
PairsOf(df) == {<<df[i].Sample, df[i].Target>> : i \in 1..Len(df)}
Measured(df, s, t) == <<s, t>> \in PairsOf(df)
CountOf(df, s, t) == Cardinality({i \in 1..Len(df) : df[i].Sample = s /\ df[i].Target = t})
MinOf(S) == CHOOSE x \in S : \A y \in S : x <= y
MatchingRules(rules, s) == {i \in 1..Len(rules) : ConditionMatches(rules[i][1], s)}

\* The resolution loop of foldch has gone over every row of the table that
\* input_df holds.
Resolved == pc \in {"resolve", "delta", "ctrl_sample", "fold", "drop", "write", "done", "error"}
            /\ row_idx > Len(output_df) /\ input_df # <<>>
\* foldch has returned the frame in output_df for the table in input_df.
Returned == pc \in {"write", "done"}

\* ----------------------------------------------------------------------- C1
\* C1: every reference a sample was given by a rule is the reference value
\* of the first rule, in declaration order, whose condition matches the
\* sample's name; this holds of the reference sample and, with the
\* target-rule list matched against the sample's name, of the reference
\* target.
FirstMatchWins(rules, s, ref) ==
    MatchingRules(rules, s) # {} => ref = rules[MinOf(MatchingRules(rules, s))][2]

C1_FirstMatchWins ==
    \A s \in DOMAIN reference_samples :
        /\ FirstMatchWins(args.reference_samples, s, reference_samples[s])
        /\ FirstMatchWins(args.reference_targets, s, reference_targets[s])

\* A wildcard rule came before a literal rule for the sample and won; and a
\* target rule matched the sample's name.
C1_Witness ==
    /\ args.reference_samples = <<<<ALL, B>>, <<A, A>>>>
    /\ args.reference_targets = <<<<A, "X">>, <<ALL, "R">>>>
    /\ A \in DOMAIN reference_samples
    /\ reference_samples[A] = B
    /\ reference_targets[A] = "X"

\* ----------------------------------------------------------------------- C2
\* C2: after the resolution loop every distinct sample of a non-empty table
\* has one reference sample and one reference target; a sample no sample
\* rule matches has the Sample of the table's first row, a sample no target
\* rule matches has the Target of that row, and each fallback was noticed.
Noticed(kind, s, dflt) ==
    \E i \in 1..Len(notices) :
        /\ notices[i].kind = kind
        /\ notices[i].sample = s
        /\ notices[i].default = dflt

C2_EverySampleResolved ==
    (Resolved /\ pc = "resolve") =>
        /\ DOMAIN reference_samples = SamplesOf(input_df)
        /\ DOMAIN reference_targets = SamplesOf(input_df)
        /\ \A s \in SamplesOf(input_df) :
            /\ MatchingRules(args.reference_samples, s) = {} =>
                /\ reference_samples[s] = input_df[1].Sample
                /\ Noticed("sample", s, input_df[1].Sample)
            /\ MatchingRules(args.reference_targets, s) = {} =>
                /\ reference_targets[s] = input_df[1].Target
                /\ Noticed("target", s, input_df[1].Target)

\* A table of several pairs whose later sample fell back to the first row.
C2_Witness ==
    /\ Resolved /\ pc = "resolve"
    /\ Len(output_df) >= 3
    /\ \E s \in SamplesOf(input_df) :
        /\ s # input_df[1].Sample
        /\ MatchingRules(args.reference_samples, s) = {}
        /\ MatchingRules(args.reference_targets, s) = {}
        /\ reference_samples[s] = input_df[1].Sample
        /\ reference_targets[s] = input_df[1].Target

\* ----------------------------------------------------------------------- C3
OutPairs == [i \in 1..Len(output_df) |-> <<output_df[i].Sample, output_df[i].Target>>]
OneRowPerPair == Cardinality(Range(OutPairs)) = Len(output_df)

\* C3 as claimed: the frame returned has one row per pair of the input
\* except the pairs whose sample is its own reference sample or whose target
\* is its own reference target.
C3_OwnReferenceOnly ==
    Returned =>
        /\ OneRowPerPair
        /\ Range(OutPairs) =
             {p \in PairsOf(input_df) :
                p[1] # reference_samples[p[1]] /\ p[2] # reference_targets[p[1]]}

\* C3 as amended: the frame returned has one row per pair of the input
\* except the pairs whose sample is the reference sample of some sample of
\* the input or whose target is the reference target of some sample of the
\* input.
C3_AnyReferenceDropped ==
    Returned =>
        /\ OneRowPerPair
        /\ Range(OutPairs) =
             {p \in PairsOf(input_df) :
                /\ ~\E s \in SamplesOf(input_df) : reference_samples[s] = p[1]
                /\ ~\E s \in SamplesOf(input_df) : reference_targets[s] = p[2]}

\* A frame was returned with a row in it, and without a pair that is no
\* self-reference pair but whose target is another sample's reference.
C3_Witness ==
    /\ Returned
    /\ output_df # <<>>
    /\ \E p \in PairsOf(input_df) :
        /\ p[1] # reference_samples[p[1]]
        /\ p[2] # reference_targets[p[1]]
        /\ p \notin Range(OutPairs)

\* ----------------------------------------------------------------------- C4
MissingControl ==
    \E s \in SamplesOf(input_df) : ~Measured(input_df, s, reference_targets[s])

\* C4: when some sample has no measurement on its reference target, foldch
\* goes no further than the group statistics, where it ends in the error;
\* it returns no frame and main writes no table, under either strategy.
C4_MissingControlAborts ==
    /\ [](Resolved /\ MissingControl =>
            /\ pc \in {"resolve", "error"}
            /\ ~written.exists
            /\ main_df = <<>>
            /\ Len(frames) = (IF args.concat = "output" THEN file_idx - 1 ELSE 0)
            /\ pc = "error" => ~ENABLED Next)
    /\ [][Resolved /\ MissingControl => pc' = "error"]_vars

\* The run ended in the error although another sample had all its groups.
C4_Witness ==
    /\ pc = "error"
    /\ Resolved /\ MissingControl
    /\ \E s \in SamplesOf(input_df) :
        /\ Measured(input_df, s, reference_targets[s])
        /\ \A t \in {"X", "R"} :
             Measured(input_df, s, t) => Measured(input_df, reference_samples[s], t)

\* ----------------------------------------------------------------------- C5
\* The table with every column, before rows are dropped.
Computed == pc = "drop"
MeanCq(s, t) == Mean(Column(get_group(input_df, s, t), "Cq"))
ClaimedDeltaCt(s, t) == RatSub(MeanCq(s, t), MeanCq(s, reference_targets[s]))
RowOf(s, t) == CHOOSE r \in Range(output_df) : r.Sample = s /\ r.Target = t
ScenarioRun ==
    /\ input_df = ScenarioTable
    /\ \A s \in {A, B} : reference_samples[s] = A /\ reference_targets[s] = "R"

\* C5: in every computed row Delta Ct is the mean Cq of the row's group less
\* the mean Cq of the sample's control group, Delta Delta Ct is Delta Ct less
\* the Delta Ct of the same target in the reference sample (taken with the
\* reference sample's own reference target), and Fold is 2 to the minus
\* Delta Delta Ct; on the scenario Delta Ct(A,X) = -4.5, Delta Ct(B,X) =
\* -3.5, Delta Delta Ct(B,X) = 1 and Fold(B,X) = 0.5.
C5_DeltaDeltaCt ==
    Computed =>
        /\ \A i \in 1..Len(output_df) :
            LET r == output_df[i]
                ddct == RatSub(ClaimedDeltaCt(r.Sample, r.Target),
                               ClaimedDeltaCt(reference_samples[r.Sample], r.Target))
            IN  /\ r.DeltaCt = ClaimedDeltaCt(r.Sample, r.Target)
                /\ r.DeltaDeltaCt = ddct
                /\ ~r.Fold.nan
                /\ r.Fold.exp = Sym(FALSE, RatNeg(ddct), 0, Whole(0))
                /\ ddct[2] = 1 => r.Fold.val = Pow2Whole(-ddct[1])
        /\ ScenarioRun =>
            /\ RowOf(A, "X").DeltaCt = Rat(-9, 2)
            /\ RowOf(B, "X").DeltaCt = Rat(-7, 2)
            /\ RowOf(A, "X").DeltaDeltaCt = Whole(0)
            /\ RowOf(A, "X").Fold.val = Whole(1)
            /\ RowOf(B, "X").DeltaDeltaCt = Whole(1)
            /\ RowOf(B, "X").Fold.val = Rat(1, 2)

\* The scenario, computed.
C5_Witness == Computed /\ ScenarioRun /\ Len(output_df) = 4

\* ----------------------------------------------------------------------- C6
IsUnit(r) ==
    /\ r.DeltaDeltaCt = Whole(0)
    /\ r.Fold.val = Whole(1)
    /\ r.LogFold = SymOfRat(Whole(0))

\* C6 as claimed: every computed row whose sample is its own reference
\* sample, or whose target is its own reference target, has Delta Delta Ct
\* 0, Fold 1 and Log Fold 0.
C6_SelfReferenceIsUnit ==
    Computed =>
        \A i \in 1..Len(output_df) :
            LET r == output_df[i]
            IN  (r.Sample = r.RefSample \/ r.Target = r.RefTarget) => IsUnit(r)

\* C6 as amended: every computed row whose sample is its own reference
\* sample, or whose target is both its own reference target and the
\* reference target of its reference sample, has Delta Delta Ct 0, Fold 1
\* and Log Fold 0.
C6_SelfReferenceIsUnitSameControl ==
    Computed =>
        \A i \in 1..Len(output_df) :
            LET r == output_df[i]
            IN  (\/ r.Sample = r.RefSample
                 \/ /\ r.Target = r.RefTarget
                    /\ reference_targets[r.RefSample] = r.Target) => IsUnit(r)

\* Both kinds of row were computed: a reference sample's row on a target
\* that is not its control, with a Delta Ct other than 0, and another
\* sample's row on the control target it shares with its reference sample.
C6_Witness ==
    /\ Computed
    /\ \E i, j \in 1..Len(output_df) :
        /\ output_df[i].Sample = output_df[i].RefSample
        /\ output_df[i].Target # output_df[i].RefTarget
        /\ output_df[i].DeltaCt # Whole(0)
        /\ output_df[j].Sample # output_df[j].RefSample
        /\ output_df[j].Target = output_df[j].RefTarget
        /\ reference_targets[output_df[j].RefSample] = output_df[j].Target

\* ----------------------------------------------------------------------- C7
IntervalIsNaN(r) ==
    /\ r.DeltaCtStd.nan
    /\ r.FoldCI68Lower.nan /\ r.FoldCI68Upper.nan
    /\ r.LogFoldCI68Lower.nan /\ r.LogFoldCI68Upper.nan
IntervalIsDefined(r) ==
    /\ ~r.DeltaCtStd.nan
    /\ ~r.FoldCI68Lower.nan /\ ~r.FoldCI68Upper.nan
    /\ ~r.LogFoldCI68Lower.nan /\ ~r.LogFoldCI68Upper.nan

\* C7: in every computed row whose own group or control group has a single
\* measurement, Delta Ct Std and the four interval bounds are NaN while
\* Delta Ct, Delta Delta Ct, Fold and Log Fold are numbers; a row whose two
\* groups have at least two measurements each has all of them defined.
C7_SingleReplicateIsNaN ==
    Computed =>
        \A i \in 1..Len(output_df) :
            LET r == output_df[i]
                n == CountOf(input_df, r.Sample, r.Target)
                nc == CountOf(input_df, r.Sample, r.RefTarget)
            IN  /\ ~IsNaN(r.DeltaCt) /\ ~IsNaN(r.DeltaDeltaCt)
                /\ ~r.Fold.nan /\ ~r.LogFold.nan
                /\ (n = 1 \/ nc = 1) => IntervalIsNaN(r)
                /\ (n >= 2 /\ nc >= 2) => IntervalIsDefined(r)

\* A table was computed with a row of each kind.
C7_Witness ==
    /\ Computed
    /\ \E i, j \in 1..Len(output_df) :
        /\ CountOf(input_df, output_df[i].Sample, output_df[i].Target) >= 2
        /\ CountOf(input_df, output_df[i].Sample, output_df[i].RefTarget) = 1
        /\ output_df[i].FoldCI68Lower.nan
        /\ CountOf(input_df, output_df[j].Sample, output_df[j].Target) >= 2
        /\ CountOf(input_df, output_df[j].Sample, output_df[j].RefTarget) >= 2
        /\ ~output_df[j].FoldCI68Lower.nan

\* ----------------------------------------------------------------------- C8
Alone(i) == foldch(args, args.input_paths[i])
OneFileRun == args.concat = "input" /\ Len(args.input_paths) = 1

\* C8: a run under 'output' that ends writes the concatenation, in file
\* order, of what foldch gives on each file alone, and it ends in the error
\* exactly on a file on which foldch alone ends in the error; a run of one
\* file under 'input' writes what foldch gives on that file alone.
C8_OutputIsPerFile ==
    /\ args.concat = "output" /\ pc = "done" =>
        /\ \A i \in 1..Len(args.input_paths) : Alone(i).ok
        /\ written.rows = Concat([i \in 1..Len(args.input_paths) |-> Alone(i).rows])
    /\ args.concat = "output" /\ pc = "error" =>
        /\ ~Alone(file_idx).ok
        /\ \A i \in 1..(file_idx - 1) : Alone(i).ok
    /\ OneFileRun /\ pc = "done" =>
        Alone(1).ok /\ written.rows = Alone(1).rows
    /\ OneFileRun /\ pc = "error" => ~Alone(1).ok

\* Two experiments on disjoint samples, each resolved against its own first
\* row, each contributing rows.
C8_Witness ==
    /\ args.concat = "output" /\ pc = "done"
    /\ args.input_paths = <<ScenarioTable, SecondTable>>
    /\ args.reference_samples = <<>>
    /\ Len(frames) = 2 /\ frames[1] # <<>> /\ frames[2] # <<>>
    /\ written.rows = frames[1] \o frames[2]
    /\ frames[2][1].RefSample = C

\* ----------------------------------------------------------------------- C9
NoRules == args.reference_samples = <<>> \/ args.reference_targets = <<>>

\* C9 as claimed: with an empty sample-rule list or an empty target-rule
\* list no reference is resolved, no group statistic is computed and no
\* table is produced.
C9_EmptyRulesAreFatal ==
    NoRules =>
        /\ reference_samples = <<>> /\ reference_targets = <<>>
        /\ pc \in {"main", "foldch", "resolve", "error"}
        /\ ~written.exists

MissingReferenceRow ==
    \E p \in PairsOf(input_df) : ~Measured(input_df, reference_samples[p[1]], p[2])

\* The causes of the error that the code has.
ErrorCause ==
    \/ args.concat \notin {"input", "output"}
    \/ input_df = <<>>
    \/ Resolved /\ (MissingControl \/ MissingReferenceRow)

\* C9 as amended: an empty rule list is no error. With an empty sample-rule
\* list every sample gets the Sample of the table's first row as reference
\* sample, with an empty target-rule list every sample gets the Target of
\* that row as reference target, and the run goes on as with any other
\* rule lists: it ends in the error only for an invalid strategy, an empty
\* table or a missing group.
C9_EmptyRulesFallBack ==
    /\ args.reference_samples = <<>> /\ pc # "foldch" =>
        \A s \in DOMAIN reference_samples : reference_samples[s] = input_df[1].Sample
    /\ args.reference_targets = <<>> /\ pc # "foldch" =>
        \A s \in DOMAIN reference_targets : reference_targets[s] = input_df[1].Target
    /\ NoRules /\ pc = "error" => ErrorCause

\* A table was written, with rows, by a run without any rule.
C9_Witness ==
    /\ args.reference_samples = <<>> /\ args.reference_targets = <<>>
    /\ pc = "done" /\ written.exists /\ written.rows # <<>>

\* ---------------------------------------------------------------------- C10
\* C10: when for some pair (s, t) of the input the reference sample of s has
\* no measurement on t, foldch goes no further than the lookup of the
\* reference sample's Delta Ct, where it ends in the error, also when every
\* sample was measured on its reference target; no frame is returned and no
\* table is written.
C10_MissingReferenceRowAborts ==
    /\ [](Resolved /\ MissingReferenceRow =>
            /\ pc \in {"resolve", "delta", "ctrl_sample", "error"}
            /\ ~written.exists
            /\ main_df = <<>>
            /\ Len(frames) = (IF args.concat = "output" THEN file_idx - 1 ELSE 0)
            /\ pc = "error" => ~ENABLED Next)
    /\ [][pc = "ctrl_sample" /\ MissingReferenceRow => pc' = "error"]_vars

\* The run ended in the error at that lookup: the group statistics had been
\* computed, every control group being present.
C10_Witness ==
    /\ pc = "error" /\ Resolved
    /\ MissingReferenceRow /\ ~MissingControl
    /\ output_df # <<>>
    /\ "DeltaCt" \in DOMAIN output_df[1]
    /\ \E s \in SamplesOf(input_df) : reference_samples[s] \notin SamplesOf(input_df)

====
